---- MODULE Spec2Model ----
(***************************************************************************)
(* Black-Scholes pricing app (src/main.py): the pricing functions, the     *)
(* sidebar widgets, and the script that Streamlit re-runs from the top on  *)
(* every widget change: headline price, sweep axes, price grids and the    *)
(* two line plots.                                                         *)
(*                                                                         *)
(* Numbers.  A Python/numpy float is modelled as a record                  *)
(*   [c |-> "fin", v |-> n]   the finite value n / ONE  (fixed point),     *)
(*   [c |-> "inf", v |-> 1]   +inf,   [c |-> "inf", v |-> -1]   -inf,      *)
(*   [c |-> "nan", v |-> 0]   NaN.                                         *)
(* Widget values and axis samples are exact rationals: a spot or strike is *)
(* an integer number of 1/SpotDen, a volatility of 1/VolDen, so that the   *)
(* NumSamples - 1 equal steps of np.linspace are exact.  Maturity and rate *)
(* are integers in units of 1/ONE.                                         *)
(***************************************************************************)
EXTENDS Integers, Sequences, FiniteSets

\* ------------------------------------------------------------------------
\* Program constants
\* ------------------------------------------------------------------------

\* np.linspace(min_S, max_S, 10), np.linspace(min_sigma, max_sigma, 10)
NumSamples == 10

\* Number of user interactions explored from the freshly loaded page.
MaxChanges == 2

\* ------------------------------------------------------------------------
\* Units
\* ------------------------------------------------------------------------

ONE == 1000 * 1000

SpotDen == NumSamples - 1

VolDen == 100 * (NumSamples - 1)

\* ------------------------------------------------------------------------
\* Floating-point values
\* ------------------------------------------------------------------------

Fin(n) == [c |-> "fin", v |-> n]

PosInf == [c |-> "inf", v |-> 1]

NegInf == [c |-> "inf", v |-> -1]

NaN == [c |-> "nan", v |-> 0]

Raise == [c |-> "raise", v |-> 0]

IsFin(x) == x.c = "fin"

IsNaN(x) == x.c = "nan"

Abs(n) == IF n < 0 THEN -n ELSE n

Sgn(n) == IF n < 0 THEN -1 ELSE IF n > 0 THEN 1 ELSE 0

Max2(a, b) == IF a >= b THEN a ELSE b

\* floor(a * b / ONE) for a, b >= 0, without leaving 32 bits.
MulNat(a, b) ==
  LET ah == a \div 1000
      al == a % 1000
      bh == b \div 1000
      bl == b % 1000
  IN  ah * bh + ((ah * bl + al * bh + ((al * bl) \div 1000)) \div 1000)

\* a * b on fixed-point integers, rounded toward zero.
FixMul(a, b) == Sgn(a) * Sgn(b) * MulNat(Abs(a), Abs(b))

RECURSIVE DivDigits(_, _, _)
\* n further decimal digits of rem / b, for 0 <= rem < b.
DivDigits(rem, b, n) ==
  IF n = 0 THEN 0
  ELSE LET q == (rem * 10) \div b
           s == (rem * 10) % b
       IN  q * (10 ^ (n - 1)) + DivDigits(s, b, n - 1)

\* floor(a * ONE / b) for a >= 0, b > 0.
DivNat(a, b) == (a \div b) * ONE + DivDigits(a % b, b, 6)

\* a / b on fixed-point integers, b # 0, rounded toward zero.
FixDiv(a, b) == Sgn(a) * Sgn(b) * DivNat(Abs(a), Abs(b))

\* x + y on floats (IEEE 754: inf + (-inf) = NaN).
FAdd(x, y) ==
  IF IsNaN(x) \/ IsNaN(y) THEN NaN
  ELSE IF IsFin(x) /\ IsFin(y) THEN Fin(x.v + y.v)
  ELSE IF IsFin(x) THEN y
  ELSE IF IsFin(y) THEN x
  ELSE IF x.v = y.v THEN x ELSE NaN

FNeg(x) == IF IsFin(x) THEN Fin(-x.v) ELSE IF IsNaN(x) THEN NaN ELSE [c |-> "inf", v |-> -x.v]

FSub(x, y) == FAdd(x, FNeg(y))

\* x / y on numpy floats: division by zero gives +-inf or NaN (and a
\* RuntimeWarning), it does not raise.  The divisor sigma * sqrt(T) is
\* finite and never negative.
NpDiv(x, y) ==
  IF IsNaN(x) THEN NaN
  ELSE IF y = 0 THEN
         IF IsFin(x) THEN (IF x.v = 0 THEN NaN ELSE IF x.v > 0 THEN PosInf ELSE NegInf)
         ELSE x
  ELSE IF IsFin(x) THEN Fin(FixDiv(x.v, y))
  ELSE x

\* a * p for a finite a >= 0 and a probability p (0 * NaN = NaN).
FScale(a, p) == IF IsFin(p) THEN Fin(FixMul(a, p.v)) ELSE NaN

\* ------------------------------------------------------------------------
\* np.sqrt, np.exp, np.log, norm.cdf
\* ------------------------------------------------------------------------

RECURSIVE Newton(_, _)
\* Integer square root of n > 0 by Newton's iteration from x >= sqrt(n).
Newton(n, x) ==
  LET y == (x + n \div x) \div 2
  IN  IF y >= x THEN x ELSE Newton(n, y)

ISqrt(n) == IF n = 0 THEN 0 ELSE Newton(n, n)

\* np.sqrt(T) for T >= 0 in 1/ONE: sqrt(T * ONE) = 100 * sqrt(100 * T).
np_sqrt(t) == ISqrt(t * 100) * 100

RECURSIVE ExpTerms(_, _, _, _)
\* sum_{k >= n} (-x)^k / k!  given term = (-x)^n / n!, up to k = last.
ExpTerms(x, term, n, last) ==
  IF n > last \/ term = 0 THEN 0
  ELSE term + ExpTerms(x, -(FixMul(term, x) \div (n + 1)), n + 1, last)

RECURSIVE ExpNeg(_)
\* exp(-x) for x >= 0.
ExpNeg(x) ==
  IF x > ONE \div 2
  THEN LET h == ExpNeg(x \div 2) IN FixMul(h, h)
  ELSE ExpTerms(x, ONE, 0, 12)

\* np.exp(y) for y <= 0 (the script only forms np.exp(-r * T), r, T >= 0).
np_exp(y) == ExpNeg(-y)

RECURSIVE AtanhTerms(_, _, _, _)
\* sum_{k >= n, k odd} z^k / k  given pow = z^n.
AtanhTerms(zz, pow, n, last) ==
  IF n > last \/ pow = 0 THEN 0
  ELSE pow \div n + AtanhTerms(zz, FixMul(pow, zz), n + 2, last)

\* ln(a / b) for integers b <= a < 2 * b: 2 * atanh((a - b) / (a + b)).
LnNear(a, b) ==
  LET z == DivNat(a - b, a + b)
  IN  2 * AtanhTerms(FixMul(z, z), z, 1, 21)

LN2 == LnNear(2, 1)

RECURSIVE LnRatio(_, _)
\* ln(a / b) for integers a, b > 0.
LnRatio(a, b) ==
  IF a < b THEN -LnRatio(b, a)
  ELSE IF a >= 2 * b THEN LN2 + LnRatio(a, 2 * b)
  ELSE LnNear(a, b)

\* np.log(S / K) of main.py lines 10-11 and 16-17.  S / K on two Python
\* floats raises ZeroDivisionError when K = 0; np.log(0.0) is -inf.
\* Raise stands for the exception.
np_log_ratio(s, k) ==
  IF k = 0 THEN Raise
  ELSE IF s = 0 THEN NegInf
  ELSE Fin(LnRatio(s, k))

\* 10^6 * (1 - Phi(z)) at z = 0.00, 0.01, ..., 5.01 (scipy.stats.norm).
NormSfTable ==
  << 
      500000, 496011, 492022, 488034, 484047, 480061, 476078, 472097, 468119, 464144, 460172, 456205,
      452242, 448283, 444330, 440382, 436441, 432505, 428576, 424655, 420740, 416834, 412936, 409046,
      405165, 401294, 397432, 393580, 389739, 385908, 382089, 378280, 374484, 370700, 366928, 363169,
      359424, 355691, 351973, 348268, 344578, 340903, 337243, 333598, 329969, 326355, 322758, 319178,
      315614, 312067, 308538, 305026, 301532, 298056, 294599, 291160, 287740, 284339, 280957, 277595,
      274253, 270931, 267629, 264347, 261086, 257846, 254627, 251429, 248252, 245097, 241964, 238852,
      235762, 232695, 229650, 226627, 223627, 220650, 217695, 214764, 211855, 208970, 206108, 203269,
      200454, 197663, 194895, 192150, 189430, 186733, 184060, 181411, 178786, 176186, 173609, 171056,
      168528, 166023, 163543, 161087, 158655, 156248, 153864, 151505, 149170, 146859, 144572, 142310,
      140071, 137857, 135666, 133500, 131357, 129238, 127143, 125072, 123024, 121000, 119000, 117023,
      115070, 113139, 111232, 109349, 107488, 105650, 103835, 102042, 100273, 98525, 96800, 95098,
      93418, 91759, 90123, 88508, 86915, 85343, 83793, 82264, 80757, 79270, 77804, 76359,
      74934, 73529, 72145, 70781, 69437, 68112, 66807, 65522, 64255, 63008, 61780, 60571,
      59380, 58208, 57053, 55917, 54799, 53699, 52616, 51551, 50503, 49471, 48457, 47460,
      46479, 45514, 44565, 43633, 42716, 41815, 40930, 40059, 39204, 38364, 37538, 36727,
      35930, 35148, 34380, 33625, 32884, 32157, 31443, 30742, 30054, 29379, 28717, 28067,
      27429, 26803, 26190, 25588, 24998, 24419, 23852, 23295, 22750, 22216, 21692, 21178,
      20675, 20182, 19699, 19226, 18763, 18309, 17864, 17429, 17003, 16586, 16177, 15778,
      15386, 15003, 14629, 14262, 13903, 13553, 13209, 12874, 12545, 12224, 11911, 11604,
      11304, 11011, 10724, 10444, 10170, 9903, 9642, 9387, 9137, 8894, 8656, 8424,
      8198, 7976, 7760, 7549, 7344, 7143, 6947, 6756, 6569, 6387, 6210, 6037,
      5868, 5703, 5543, 5386, 5234, 5085, 4940, 4799, 4661, 4527, 4396, 4269,
      4145, 4025, 3907, 3793, 3681, 3573, 3467, 3364, 3264, 3167, 3072, 2980,
      2890, 2803, 2718, 2635, 2555, 2477, 2401, 2327, 2256, 2186, 2118, 2052,
      1988, 1926, 1866, 1807, 1750, 1695, 1641, 1589, 1538, 1489, 1441, 1395,
      1350, 1306, 1264, 1223, 1183, 1144, 1107, 1070, 1035, 1001, 968, 935,
      904, 874, 845, 816, 789, 762, 736, 711, 687, 664, 641, 619,
      598, 577, 557, 538, 519, 501, 483, 466, 450, 434, 419, 404,
      390, 376, 362, 349, 337, 325, 313, 302, 291, 280, 270, 260,
      251, 242, 233, 224, 216, 208, 200, 193, 185, 178, 172, 165,
      159, 153, 147, 142, 136, 131, 126, 121, 117, 112, 108, 104,
      100, 96, 92, 88, 85, 82, 78, 75, 72, 69, 67, 64,
      62, 59, 57, 54, 52, 50, 48, 46, 44, 42, 41, 39,
      37, 36, 34, 33, 32, 30, 29, 28, 27, 26, 25, 24,
      23, 22, 21, 20, 19, 18, 17, 17, 16, 15, 15, 14,
      13, 13, 12, 12, 11, 11, 10, 10, 9, 9, 9, 8,
      8, 7, 7, 7, 7, 6, 6, 6, 5, 5, 5, 5,
      4, 4, 4, 4, 4, 4, 3, 3, 3, 3, 3, 3,
      3, 2, 2, 2, 2, 2, 2, 2, 2, 2, 2, 2,
      1, 1, 1, 1, 1, 1, 1, 1, 1, 1, 1, 1,
      1, 1, 1, 1, 1, 1, 1, 1, 1, 1, 0, 0,
      0, 0, 0, 0, 0, 0, 0, 0, 0, 0
  >>

\* 1 - Phi(z) for z >= 0 in 1/ONE, linear between the table's points.
NormSf(z) ==
  IF z >= 5 * ONE THEN 0
  ELSE LET i == z \div 10000
           f == z % 10000
           a == NormSfTable[i + 1]
           b == NormSfTable[i + 2]
       IN  a - ((a - b) * f) \div 10000

\* scipy.stats.norm.cdf: cdf(inf) = 1, cdf(-inf) = 0, cdf(nan) = nan.
norm_cdf(x) ==
  IF IsNaN(x) THEN NaN
  ELSE IF ~IsFin(x) THEN (IF x.v > 0 THEN Fin(ONE) ELSE Fin(0))
  ELSE IF x.v >= 0 THEN Fin(ONE - NormSf(x.v))
  ELSE Fin(NormSf(-x.v))

\* ------------------------------------------------------------------------
\* The pricing functions (main.py lines 9-19)
\* ------------------------------------------------------------------------

\* A volatility (in 1/VolDen) in 1/ONE.
SigmaFix(sg) == (sg * ONE) \div VolDen

\* (r + 0.5 * sigma ** 2) * T   and   (r - 0.5 * sigma ** 2) * T
Drift(t, rt, sg, sign) ==
  LET s1 == SigmaFix(sg)
  IN  FixMul(rt + sign * (FixMul(s1, s1) \div 2), t)

\* sigma * np.sqrt(T)
SigmaSqrtT(t, sg) == FixMul(SigmaFix(sg), np_sqrt(t))

\* d1 = (np.log(S / K) + (r + 0.5 * sigma ** 2) * T) / (sigma * np.sqrt(T))
D1(s, k, t, rt, sg) ==
  LET l == np_log_ratio(s, k)
  IN  IF l = Raise THEN Raise
      ELSE NpDiv(FAdd(l, Fin(Drift(t, rt, sg, 1))), SigmaSqrtT(t, sg))

\* d2 = (np.log(S / K) + (r - 0.5 * sigma ** 2) * T) / (sigma * np.sqrt(T))
D2(s, k, t, rt, sg) ==
  LET l == np_log_ratio(s, k)
  IN  IF l = Raise THEN Raise
      ELSE NpDiv(FAdd(l, Fin(Drift(t, rt, sg, -1))), SigmaSqrtT(t, sg))

\* S * p for a spot S in 1/SpotDen.
SpotTimes(s, p) == IF IsFin(p) THEN Fin((s * p.v) \div SpotDen) ELSE NaN

\* np.exp(-r * T)
Discount(t, rt) == np_exp(-FixMul(rt, t))

\* K * np.exp(-r * T) for a strike K in 1/SpotDen.
DiscountedStrike(k, t, rt) == (k * Discount(t, rt)) \div SpotDen

\* K * np.exp(-r * T) * p
StrikeTimes(k, t, rt, p) == FScale(DiscountedStrike(k, t, rt), p)

\* main.py lines 9-13:
\*   call_price = S * norm.cdf(d1) - K * np.exp(-r * T) * norm.cdf(d2)
black_scholes_call(s, k, t, rt, sg) ==
  LET d1 == D1(s, k, t, rt, sg)
      d2 == D2(s, k, t, rt, sg)
  IN  IF d1 = Raise THEN Raise
      ELSE FSub(SpotTimes(s, norm_cdf(d1)), StrikeTimes(k, t, rt, norm_cdf(d2)))

\* A put that forgets to negate d1: ... - S * norm.cdf(d1).
black_scholes_put_unnegated_d1(s, k, t, rt, sg) ==
  LET d1 == D1(s, k, t, rt, sg)
      d2 == D2(s, k, t, rt, sg)
  IN  IF d1 = Raise THEN Raise
      ELSE FSub(StrikeTimes(k, t, rt, norm_cdf(FNeg(d2))), SpotTimes(s, norm_cdf(d1)))

\* main.py lines 15-19:
\*   put_price = K * np.exp(-r * T) * norm.cdf(-d2) - S * norm.cdf(-d1)
black_scholes_put(s, k, t, rt, sg) ==
  LET d1 == D1(s, k, t, rt, sg)
      d2 == D2(s, k, t, rt, sg)
  IN  IF d1 = Raise THEN Raise
      ELSE FSub(StrikeTimes(k, t, rt, norm_cdf(FNeg(d2))),
                SpotTimes(s, norm_cdf(FNeg(d1))))

\* ------------------------------------------------------------------------
\* The sidebar widgets (main.py lines 41-51)
\* ------------------------------------------------------------------------

Spot(x) == x * SpotDen

Vol(percent) == percent * (VolDen \div 100)

\* number_input(..., value=...) and slider(..., value=...) defaults.
Defaults ==
  [S |-> Spot(100), K |-> Spot(100), T |-> ONE, r |-> ONE \div 20, sigma |-> Vol(20),
   min_S |-> Spot(80), max_S |-> Spot(120), min_sigma |-> Vol(10), max_sigma |-> Vol(30)]

\* Values the user enters in the number inputs (all have min_value=0.0).
SpotInputs == {Spot(0), Spot(100)}

MaturityInputs == {0, ONE}

RateInputs == {0, ONE \div 20}

SigmaInputs == {Vol(0), Vol(10), Vol(20)}

\* Positions the user drags the range sliders to.
SpotSliderStops == {Spot(80), Spot(120), Spot(130)}

VolSliderStops == {Vol(10), Vol(30), Vol(50)}

\* slider(min_value=..., max_value=200.0) and slider(min_value=..., max_value=1.0)
SpotSliderMax == Spot(200)

VolSliderMax == Vol(100)

\* st.slider makes sure min <= value <= max by widening the bounds it was
\* given: min_value = min(value, min_value), max_value = max(value, max_value).
\* The widget shows (and returns) any position between the widened bounds.
SliderLo(min_value, value) == IF value < min_value THEN value ELSE min_value

SliderHi(max_value, value) == IF value > max_value THEN value ELSE max_value

SliderAllows(x, min_value, max_value, value) ==
  SliderLo(min_value, value) <= x /\ x <= SliderHi(max_value, value)

\* A widget whose arguments change is a new widget and starts at its
\* default; otherwise it keeps the position the user gave it.
SliderKeep(old_min, new_min, value, position) ==
  IF SliderLo(old_min, value) = SliderLo(new_min, value) THEN position ELSE value

\* ------------------------------------------------------------------------
\* The sweep (main.py lines 83-90, 128-129, 135-136)
\* ------------------------------------------------------------------------

\* np.linspace(start, stop, num, endpoint=False): the samples stop short of stop.
linspace_no_endpoint(start, stop, num) ==
  LET step == (stop - start) \div num
  IN  [i \in 1..num |-> start + (i - 1) * step]

\* np.linspace(start, stop, num): start + i * step, the last sample set to stop.
linspace(start, stop, num) ==
  LET step == (stop - start) \div (num - 1)
  IN  [i \in 1..num |-> IF i = num THEN stop ELSE start + (i - 1) * step]

Range(seq) == {seq[i] : i \in 1..Len(seq)}

SetMin(set) == CHOOSE x \in set : \A y \in set : x <= y

RECURSIVE SortedSeq(_)
SortedSeq(set) ==
  IF set = {} THEN <<>>
  ELSE <<SetMin(set)>> \o SortedSeq(set \ {SetMin(set)})

\* np.unique(a): the sorted distinct elements of a.
np_unique(a) == SortedSeq(Range(a))

\* np.append(a, x)
np_append(a, x) == Append(a, x)

\* The axis without np.unique: the appended base volatility stays beside an
\* equal sample.
VolatilityAxisNoUnique(lo, hi, sg) == np_append(linspace(lo, hi, NumSamples), sg)

\* The axis without np.append: the uniform samples alone.
VolatilityAxisNoAppend(lo, hi, sg) == np_unique(linspace(lo, hi, NumSamples))

\* volatilities = np.unique(np.append(np.linspace(min_sigma, max_sigma, 10), sigma))
VolatilityAxis(lo, hi, sg) == np_unique(np_append(linspace(lo, hi, NumSamples), sg))

\* The call grid with its loops exchanged: one row per spot.
CallGridTransposed(spots, k, t, rt, vols) ==
  [j \in 1..Len(spots) |->
     [i \in 1..Len(vols) |-> black_scholes_call(spots[j], k, t, rt, vols[i])]]

\* [[black_scholes_call(S, K, T, r, v) for S in spot_prices] for v in volatilities]
CallGrid(spots, k, t, rt, vols) ==
  [i \in 1..Len(vols) |->
     [j \in 1..Len(spots) |-> black_scholes_call(spots[j], k, t, rt, vols[i])]]

\* [[black_scholes_put(S, K, T, r, v) for S in spot_prices] for v in volatilities]
PutGrid(spots, k, t, rt, vols) ==
  [i \in 1..Len(vols) |->
     [j \in 1..Len(spots) |-> black_scholes_put(spots[j], k, t, rt, vols[i])]]

\* A loop variable that outlives its comprehension, as that of a for
\* statement does: S is left at the last spot.
LeakedLoopVariable(global_S, spots) == spots[Len(spots)]

\* The module-level S after a comprehension "... for S in spots": in
\* Python 3 the loop variable is local to the comprehension.
AfterComprehension(global_S, spots) == global_S

\* [black_scholes_call(S, K, T, r, sigma) for S in spot_prices] and the put
\* trace, as pairs (call, put).
SpotLine(spots, k, t, rt, sg) ==
  [j \in 1..Len(spots) |->
     <<black_scholes_call(spots[j], k, t, rt, sg), black_scholes_put(spots[j], k, t, rt, sg)>>]

\* [black_scholes_call(S, K, T, r, v) for v in volatilities] and the put
\* trace, as pairs (call, put).
VolatilityLine(s, k, t, rt, vols) ==
  [i \in 1..Len(vols) |->
     <<black_scholes_call(s, k, t, rt, vols[i]), black_scholes_put(s, k, t, rt, vols[i])>>]

\* ------------------------------------------------------------------------
\* State
\* ------------------------------------------------------------------------

VARIABLES
  widgets,        \* the session's widget values (kept across re-runs)
  changes,        \* number of widget changes so far
  pc,             \* the statement the running script is at
  err,            \* the exception that ended the run, or "none"
  calls,          \* calls of black_scholes_call / black_scholes_put in this run
  S, K, T, r, sigma,
  min_S, max_S, min_sigma, max_sigma,
  call_price, put_price,
  spot_prices, volatilities,
  call_prices, put_prices,
  fig_line_spot, fig_line_volatility

vars ==
  <<widgets, changes, pc, err, calls, S, K, T, r, sigma, min_S, max_S, min_sigma,
    max_sigma, call_price, put_price, spot_prices, volatilities, call_prices,
    put_prices, fig_line_spot, fig_line_volatility>>

\* A name the script has not assigned yet.
Unset == [c |-> "unset", v |-> 0]

\* The module namespace of a run that starts.
FreshRun ==
  /\ pc = "inputs"
  /\ err = "none"
  /\ calls = 0
  /\ S = 0 /\ K = 0 /\ T = 0 /\ r = 0 /\ sigma = 0
  /\ min_S = 0 /\ max_S = 0 /\ min_sigma = 0 /\ max_sigma = 0
  /\ call_price = Unset /\ put_price = Unset
  /\ spot_prices = <<>> /\ volatilities = <<>>
  /\ call_prices = <<>> /\ put_prices = <<>>
  /\ fig_line_spot = <<>> /\ fig_line_volatility = <<>>

Init ==
  /\ widgets = Defaults
  /\ changes = 0
  /\ FreshRun

\* Streamlit runs the script again from its first line in a new namespace.
Restart ==
  /\ pc' = "inputs"
  /\ err' = "none"
  /\ calls' = 0
  /\ S' = 0 /\ K' = 0 /\ T' = 0 /\ r' = 0 /\ sigma' = 0
  /\ min_S' = 0 /\ max_S' = 0 /\ min_sigma' = 0 /\ max_sigma' = 0
  /\ call_price' = Unset /\ put_price' = Unset
  /\ spot_prices' = <<>> /\ volatilities' = <<>>
  /\ call_prices' = <<>> /\ put_prices' = <<>>
  /\ fig_line_spot' = <<>> /\ fig_line_volatility' = <<>>

\* ------------------------------------------------------------------------
\* The user: a widget change re-runs the script from the top
\* ------------------------------------------------------------------------

Rerun(w) ==
  /\ changes < MaxChanges
  /\ w # widgets
  /\ widgets' = w
  /\ changes' = changes + 1
  /\ Restart

\* 'Current Asset Price'
SetS == \E x \in SpotInputs : Rerun([widgets EXCEPT !.S = x])

\* 'Strike Price'
SetK == \E x \in SpotInputs : Rerun([widgets EXCEPT !.K = x])

\* 'Time to Maturity (Years)'
SetT == \E x \in MaturityInputs : Rerun([widgets EXCEPT !.T = x])

\* 'Risk-Free Interest Rate'
SetR == \E x \in RateInputs : Rerun([widgets EXCEPT !.r = x])

\* 'Volatility'
SetSigma == \E x \in SigmaInputs : Rerun([widgets EXCEPT !.sigma = x])

\* 'Min Spot Price': slider(min_value=0.0, max_value=200.0, value=80.0); the
\* 'Max Spot Price' slider below it takes min_value=min_S.
SetMinS ==
  \E x \in SpotSliderStops :
    /\ SliderAllows(x, Spot(0), SpotSliderMax, Defaults.min_S)
    /\ Rerun([widgets EXCEPT
                !.min_S = x,
                !.max_S = SliderKeep(widgets.min_S, x, Defaults.max_S, @)])

\* 'Max Spot Price': slider(min_value=min_S, max_value=200.0, value=120.0)
SetMaxS ==
  \E x \in SpotSliderStops :
    /\ SliderAllows(x, widgets.min_S, SpotSliderMax, Defaults.max_S)
    /\ Rerun([widgets EXCEPT !.max_S = x])

\* 'Min Volatility': slider(min_value=0.01, max_value=1.0, value=0.1)
SetMinSigma ==
  \E x \in VolSliderStops :
    /\ SliderAllows(x, Vol(1), VolSliderMax, Defaults.min_sigma)
    /\ Rerun([widgets EXCEPT
                !.min_sigma = x,
                !.max_sigma = SliderKeep(widgets.min_sigma, x, Defaults.max_sigma, @)])

\* 'Max Volatility': slider(min_value=min_sigma, max_value=1.0, value=0.3)
SetMaxSigma ==
  \E x \in VolSliderStops :
    /\ SliderAllows(x, widgets.min_sigma, VolSliderMax, Defaults.max_sigma)
    /\ Rerun([widgets EXCEPT !.max_sigma = x])

\* ------------------------------------------------------------------------
\* The script
\* ------------------------------------------------------------------------

\* lines 41-51: the widgets return their values.
ReadInputs ==
  /\ pc = "inputs"
  /\ S' = widgets.S /\ K' = widgets.K /\ T' = widgets.T
  /\ r' = widgets.r /\ sigma' = widgets.sigma
  /\ min_S' = widgets.min_S /\ max_S' = widgets.max_S
  /\ min_sigma' = widgets.min_sigma /\ max_sigma' = widgets.max_sigma
  /\ pc' = "headline"
  /\ UNCHANGED <<widgets, changes, err, calls, call_price, put_price, spot_prices,
                 volatilities, call_prices, put_prices, fig_line_spot,
                 fig_line_volatility>>

\* lines 53-54: the headline prices.  S / K raises ZeroDivisionError inside
\* the first call when K = 0, and the run ends there.
Headline ==
  /\ pc = "headline"
  /\ LET c == black_scholes_call(S, K, T, r, sigma)
     IN  IF c = Raise
         THEN /\ pc' = "crashed"
              /\ err' = "ZeroDivisionError"
              /\ calls' = calls + 1
              /\ UNCHANGED <<call_price, put_price>>
         ELSE /\ pc' = "axes"
              /\ call_price' = c
              /\ put_price' = black_scholes_put(S, K, T, r, sigma)
              /\ calls' = calls + 2
              /\ UNCHANGED err
  /\ UNCHANGED <<widgets, changes, S, K, T, r, sigma, min_S, max_S, min_sigma,
                 max_sigma, spot_prices, volatilities, call_prices, put_prices,
                 fig_line_spot, fig_line_volatility>>

\* lines 83-87: the two axes.
Axes ==
  /\ pc = "axes"
  /\ spot_prices' = linspace(min_S, max_S, NumSamples)
  /\ volatilities' = VolatilityAxis(min_sigma, max_sigma, sigma)
  /\ pc' = "grids"
  /\ UNCHANGED <<widgets, changes, err, calls, S, K, T, r, sigma, min_S, max_S,
                 min_sigma, max_sigma, call_price, put_price, call_prices,
                 put_prices, fig_line_spot, fig_line_volatility>>

\* lines 89-90: the price grids.
Grids ==
  /\ pc = "grids"
  /\ call_prices' = CallGrid(spot_prices, K, T, r, volatilities)
  /\ put_prices' = PutGrid(spot_prices, K, T, r, volatilities)
  /\ S' = AfterComprehension(S, spot_prices)
  /\ calls' = calls + 2 * Len(volatilities) * Len(spot_prices)
  /\ pc' = "line_spot"
  /\ UNCHANGED <<widgets, changes, err, K, T, r, sigma, min_S, max_S, min_sigma,
                 max_sigma, call_price, put_price, spot_prices, volatilities,
                 fig_line_spot, fig_line_volatility>>

\* lines 128-129: option prices vs. spot price.
LineSpot ==
  /\ pc = "line_spot"
  /\ fig_line_spot' = SpotLine(spot_prices, K, T, r, sigma)
  /\ S' = AfterComprehension(S, spot_prices)
  /\ calls' = calls + 2 * Len(spot_prices)
  /\ pc' = "line_volatility"
  /\ UNCHANGED <<widgets, changes, err, K, T, r, sigma, min_S, max_S, min_sigma,
                 max_sigma, call_price, put_price, spot_prices, volatilities,
                 call_prices, put_prices, fig_line_volatility>>

\* lines 135-136: option prices vs. volatility.
LineVolatility ==
  /\ pc = "line_volatility"
  /\ fig_line_volatility' = VolatilityLine(S, K, T, r, volatilities)
  /\ calls' = calls + 2 * Len(volatilities)
  /\ pc' = "done"
  /\ UNCHANGED <<widgets, changes, err, S, K, T, r, sigma, min_S, max_S, min_sigma,
                 max_sigma, call_price, put_price, spot_prices, volatilities,
                 call_prices, put_prices, fig_line_spot>>

Next ==
  \/ SetMaxS \/ SetMaxSigma \/ SetMinS \/ SetMinSigma
  \/ SetS \/ SetK \/ SetT \/ SetR \/ SetSigma
  \/ ReadInputs \/ Headline \/ Axes \/ Grids \/ LineSpot \/ LineVolatility

Spec == Init /\ [][Next]_vars

\* ------------------------------------------------------------------------
\* Properties
\* ------------------------------------------------------------------------

HeadlineDone == pc \in {"axes", "grids", "line_spot", "line_volatility", "done"}

AxesBuilt == pc \in {"grids", "line_spot", "line_volatility", "done"}

GridsBuilt == pc \in {"line_spot", "line_volatility", "done"}

SpotLineBuilt == pc \in {"line_volatility", "done"}

Cells(grid) == {grid[i][j] : i \in 1..Len(grid), j \in 1..NumSamples}

Prices(line) == UNION {{line[i][1], line[i][2]} : i \in 1..Len(line)}

\* Every price the run has produced so far.
AllPrices ==
  ({call_price, put_price} \ {Unset})
    \cup Cells(call_prices) \cup Cells(put_prices)
    \cup Prices(fig_line_spot) \cup Prices(fig_line_volatility)

StrictlyAscending(seq) == \A i \in 1..(Len(seq) - 1) : seq[i] < seq[i + 1]

StrictlyDescending(seq) == \A i \in 1..(Len(seq) - 1) : seq[i] > seq[i + 1]

\* x <= y on floats: false when either side is NaN.
FLeq(x, y) == IsFin(x) /\ IsFin(y) /\ x.v <= y.v

\* C1: with volatility = 0 or maturity = 0 (spot and strike positive) the
\* evaluation ends in an explicit DegenerateInput outcome and no price, be it
\* the headline, a grid cell or a point of a line, is NaN.
C1_DegenerateInputSignalled ==
  (pc \notin {"inputs", "headline"} /\ S > 0 /\ K > 0 /\ (sigma = 0 \/ T = 0))
    => (err = "DegenerateInput" /\ \A p \in AllPrices : ~IsNaN(p))

\* C2: with spot <= 0 or strike <= 0 the run is rejected as InvalidParameter
\* before the pricing functions are called and before a grid is built.
C2_InvalidParameterRejected ==
  (pc # "inputs" /\ (S <= 0 \/ K <= 0))
    => /\ calls = 0
       /\ call_prices = <<>> /\ put_prices = <<>>
       /\ (pc # "headline" => err = "InvalidParameter")

\* C3: once the axes are built, the base volatility occurs in the volatility
\* axis exactly once, whether or not a uniform sample already equals it.
C3_BaseVolatilityOnce ==
  AxesBuilt => Cardinality({i \in 1..Len(volatilities) : volatilities[i] = sigma}) = 1

\* C3 witness: the axes are built and one of the 10 uniform samples is the
\* base volatility, so that the appended copy had to be removed.
C3_Witness ==
  /\ AxesBuilt
  /\ sigma \in Range(linspace(min_sigma, max_sigma, NumSamples))
  /\ min_sigma < max_sigma

\* C4: the call grid and the put grid have one row per volatility-axis value
\* and one column per spot-axis value, and cell [i][j] is the pricing function
\* at spot_prices[j] and volatilities[i] with the base K, T and r.
C4_GridShapeAndCells ==
  GridsBuilt =>
    /\ Len(call_prices) = Len(volatilities)
    /\ Len(put_prices) = Len(volatilities)
    /\ \A i \in 1..Len(volatilities) :
         /\ Len(call_prices[i]) = Len(spot_prices)
         /\ Len(put_prices[i]) = Len(spot_prices)
         /\ \A j \in 1..Len(spot_prices) :
              /\ call_prices[i][j] =
                   black_scholes_call(spot_prices[j], widgets.K, widgets.T, widgets.r,
                                      volatilities[i])
              /\ put_prices[i][j] =
                   black_scholes_put(spot_prices[j], widgets.K, widgets.T, widgets.r,
                                     volatilities[i])

\* C4 witness: grids with more rows than columns (the base volatility was
\* inserted) whose cells differ along both axes.
C4_Witness ==
  /\ GridsBuilt
  /\ Len(call_prices) = NumSamples + 1
  /\ Len(call_prices[1]) = NumSamples
  /\ call_prices[1][1] # call_prices[1][2]
  /\ call_prices[1][1] # call_prices[2][1]

\* C5: building the grids and the spot line leaves the base spot S as the
\* user entered it, and every point of the volatility line is the price at
\* that base spot.
C5_VolatilityLineAtBaseSpot ==
  /\ pc \notin {"inputs"} => S = widgets.S
  /\ pc = "done" =>
       /\ Len(fig_line_volatility) = Len(volatilities)
       /\ \A i \in 1..Len(volatilities) :
            fig_line_volatility[i] =
              <<black_scholes_call(widgets.S, K, T, r, volatilities[i]),
                black_scholes_put(widgets.S, K, T, r, volatilities[i])>>

\* C5 witness: a finished run whose spot axis ends at a value other than the
\* base spot, and whose volatility line differs from the one at that value.
C5_Witness ==
  /\ pc = "done"
  /\ spot_prices[NumSamples] # widgets.S
  /\ fig_line_volatility # VolatilityLine(spot_prices[NumSamples], K, T, r, volatilities)

\* C6: the spot line has one (call, put) pair per spot-axis value, evaluated
\* at the base volatility, and equals the row of the grids whose
\* volatility-axis value is the base volatility.
C6_SpotLineIsBaseRow ==
  SpotLineBuilt =>
    /\ Len(fig_line_spot) = Len(spot_prices)
    /\ \E i \in 1..Len(volatilities) : volatilities[i] = sigma
    /\ \A i \in 1..Len(volatilities) :
         volatilities[i] = sigma =>
           \A j \in 1..Len(spot_prices) :
             fig_line_spot[j] = <<call_prices[i][j], put_prices[i][j]>>

\* C6 witness: the spot line is built and the base volatility is none of the
\* uniform samples: its row exists only because it was appended.
C6_Witness ==
  /\ SpotLineBuilt
  /\ sigma \notin Range(linspace(min_sigma, max_sigma, NumSamples))
  /\ \E j \in 1..NumSamples : IsFin(fig_line_spot[j][1]) /\ fig_line_spot[j][1].v > 0

\* C7: whenever the axes are built, min_S <= max_S and min_sigma <= max_sigma.
C7_RangesOrdered == AxesBuilt => (min_S <= max_S /\ min_sigma <= max_sigma)

\* Put-call parity of one (call, put) pair within the resolution 1 / ONE of
\* the arithmetic, relative to the larger of |call|, |put| and 1:
\*   |call - put - (S - K * exp(-r * T))| <= max(|call|, |put|, 1) / ONE
Parity(c, p, s, k, t, rt) ==
  /\ IsFin(c) /\ IsFin(p)
  /\ LET gap == Abs((c.v - p.v) - ((s * ONE) \div SpotDen - DiscountedStrike(k, t, rt)))
     IN  /\ gap <= 1000
         /\ gap * ONE <= Max2(Max2(Abs(c.v), Abs(p.v)), ONE)

\* C8: for spot, strike, maturity and volatility > 0 and rate >= 0, the call
\* and the put on the same inputs satisfy put-call parity within the
\* arithmetic's resolution, for the headline prices and for every cell of the
\* grids.
C8_PutCallParity ==
  /\ (HeadlineDone /\ S > 0 /\ K > 0 /\ T > 0 /\ sigma > 0)
       => Parity(call_price, put_price, S, K, T, r)
  /\ (GridsBuilt /\ K > 0 /\ T > 0)
       => \A i \in 1..Len(volatilities) : \A j \in 1..Len(spot_prices) :
            (volatilities[i] > 0 /\ spot_prices[j] > 0)
              => Parity(call_prices[i][j], put_prices[i][j], spot_prices[j], K, T, r)

\* C8 witness: a finished run on valid parameters with a positive headline
\* call and put.
C8_Witness ==
  /\ pc = "done"
  /\ S > 0 /\ K > 0 /\ T > 0 /\ sigma > 0
  /\ call_price.v > 0 /\ put_price.v > 0
  /\ call_price # put_price

\* C9: in every volatility row of the grids, the call price does not
\* decrease and the put price does not increase from column j to column k > j.
C9_GridMonotoneInSpot ==
  GridsBuilt =>
    \A i \in 1..Len(call_prices) : \A j \in 1..NumSamples : \A k \in 1..NumSamples :
      j < k => /\ FLeq(call_prices[i][j], call_prices[i][k])
               /\ FLeq(put_prices[i][k], put_prices[i][j])

\* C10 as stated: both axes are ascending without a repeated value, and the
\* spot axis has NumSamples elements from min_S to max_S.
C10_AxesAscendingNoRepeats ==
  AxesBuilt =>
    /\ StrictlyAscending(spot_prices)
    /\ StrictlyAscending(volatilities)
    /\ Len(spot_prices) = NumSamples
    /\ spot_prices[1] = min_S /\ spot_prices[NumSamples] = max_S

\* C10 amended: the volatility axis is ascending without a repeated value;
\* the spot axis has NumSamples elements from min_S to max_S, ascending
\* without a repeated value when min_S < max_S, NumSamples copies of min_S
\* when min_S = max_S, and descending when min_S > max_S.
C10_AxesOrder ==
  AxesBuilt =>
    /\ StrictlyAscending(volatilities)
    /\ Len(spot_prices) = NumSamples
    /\ spot_prices[1] = min_S /\ spot_prices[NumSamples] = max_S
    /\ min_S < max_S => StrictlyAscending(spot_prices)
    /\ min_S = max_S => \A j \in 1..NumSamples : spot_prices[j] = min_S
    /\ min_S > max_S => StrictlyDescending(spot_prices)

\* C10 witness: the axes are built from a spot range with minimum = maximum
\* and a volatility range with minimum = maximum.
C10_Witness ==
  /\ AxesBuilt
  /\ min_S = max_S
  /\ min_sigma = max_sigma

\* Monotonicity of the pricing functions on an ascending spot axis and
\* strictly positive maturity and volatilities.
OrderedRangeMonotone ==
  (GridsBuilt /\ min_S <= max_S /\ K > 0 /\ T > 0 /\ sigma > 0)
    => \A i \in 1..Len(call_prices) : \A j \in 1..(NumSamples - 1) :
         /\ FLeq(call_prices[i][j], call_prices[i][j + 1])
         /\ FLeq(put_prices[i][j + 1], put_prices[i][j])

====
